---- MODULE Spec2Model ----
(***************************************************************************)
(* The trap ingestion pipeline of trapperkeeper: TrapperCallback.__call__  *)
(* and TrapperCallback._call of src/trapperkeeper/callbacks.py, with the   *)
(* SQLAlchemy session (self.conn), the shared store, the expvar counters   *)
(* and the two fan-out actions.                                            *)
(***************************************************************************)
EXTENDS Integers, Sequences, FiniteSets, TLC

\* ------------------------------------------------------------------ bounds
MaxCalls == 2          \* invocations of one dispatcher thread (Spec)
AuditCalls == 1        \* invocations when the received message is kept (SpecAudit)
NumPeers == 2          \* peer ingesters sharing the store (SpecPeers)
NumThreads == 2        \* transport threads invoking one callback (SpecShared)
SharedCalls == 2       \* invocations of each of them
MaxSent == 1           \* sent timestamps 1..MaxSent
MaxFaults == 1         \* upsets in one behaviour: a message the validator
                       \* refuses, a plug-in that acts, a failing store,
                       \* mail or index call

\* ------------------------------------------------------------ value spaces
Hosts == {"10.0.0.1"}
OIDs == {"oidA", "oidB"}
Sents == 1..MaxSent
Communities == {"public", "Public"}
Secrets == {"", "public"}
ThisHost == "manager1"

\* The variable bindings carried by the traps of the model, as
\* varbind.to_dict(pretty=True) gives them.
Loc == [name |-> "sysLocation.0", oid |-> "1.3.6.1.2.1.1.6.0",
        value |-> "Lab-1", pretty_value |-> "Lab-1", value_type |-> "octet"]
UpTime == [name |-> "sysUpTime.0", oid |-> "1.3.6.1.2.1.1.3.0",
           value |-> "4711", pretty_value |-> "47.11s", value_type |-> "timeticks"]

\* The variable-binding list of a trap with the given trap OID.
VarBindsOf(o) == IF o = "oidA" THEN <<Loc>> ELSE <<UpTime, Loc>>

Counters == {"callback-failure", "unsupported-notification",
             "unauthenticated-notification", "traps_received",
             "traps_blackholed", "traps_accepted", "db_write_attempted",
             "db_write_successful", "db_write_failed", "db_write_duplicate",
             "mail_sent_attempted", "mail_sent_successful", "mail_sent_failed"}

\* ---------------------------------------------------------------- policies
\* A handler policy: the dict self.config.handlers[trap.oid].
\* expiration 0 stands for "no expiration configured"; mail is the mail rule
\* handler["mail"]: NoMail when none is configured, else its recipients.
NoMail == [configured |-> FALSE, recipients |-> {}]
MailTo(rcpts) == [configured |-> TRUE, recipients |-> rcpts]
Ops == MailTo({"ops@example.com"})

Handler(sev, exp, bh, mail, mod) ==
    [severity |-> sev, expiration |-> exp, blackhole |-> bh, mail |-> mail,
     mail_on_duplicate |-> mod]

\* A policy table whose two OIDs are both stored, one with a mail rule.
PlainTable ==
    [oidA |-> Handler("warning", 5, FALSE, Ops, TRUE),
     oidB |-> Handler("info", 0, FALSE, NoMail, FALSE)]

Tables ==
    { [oidA |-> Handler("warning", 0, FALSE, Ops, FALSE),
       oidB |-> Handler("info", 0, TRUE, Ops, FALSE)],
      PlainTable,
      [oidA |-> Handler("warning", 0, FALSE, MailTo({}), TRUE),
       oidB |-> Handler("info", 5, FALSE, NoMail, TRUE)],
      [oidA |-> Handler("warning", 0, FALSE, MailTo({}), FALSE),
       oidB |-> Handler("info", 5, TRUE, NoMail, TRUE)] }

\* ---------------------------------------------------------------- messages
\* A received datagram as the code sees it: raw is "empty" (whole_msg is
\* falsy), "garbage" (api.decodeMessageVersion raises) or "snmp"; vtag is the
\* decoded version tag, wire the result of decoder.decode, pdu what getPDU
\* returns: its class, whether Notification.from_pdu converts it, and the
\* trap content.
NoPdu == [cls |-> "get", conv |-> FALSE, oid |-> "", sent |-> 0]
BadTrapPdu == [cls |-> "trap", conv |-> FALSE, oid |-> "", sent |-> 0]
TrapPdus == {[cls |-> "trap", conv |-> TRUE, oid |-> o, sent |-> s] :
                o \in OIDs, s \in Sents}
Pdus == {NoPdu, BadTrapPdu} \cup TrapPdus

VersionTags == {0, 1, 3}
WireResults == {"ok", "ProtocolError", "ValueConstraintError", "SubstrateUnderrunError"}

Msg(raw, vtag, wire, com, pdu) ==
    [raw |-> raw, vtag |-> vtag, wire |-> wire, community |-> com, pdu |-> pdu]

EmptyMsg == Msg("empty", 0, "ok", "", NoPdu)
GarbageMsg == Msg("garbage", 0, "ok", "", NoPdu)
Messages ==
    {EmptyMsg, GarbageMsg} \cup
    {Msg("snmp", v, w, c, p) :
        v \in VersionTags, w \in WireResults, c \in Communities, p \in Pdus}

\* One message for each way through the validator and each trap content: the
\* messages drawn when the received message is not kept in the state.
CoreMessages ==
    {EmptyMsg, GarbageMsg,
     Msg("snmp", 3, "ok", "public", BadTrapPdu),
     Msg("snmp", 1, "ValueConstraintError", "public", BadTrapPdu),
     Msg("snmp", 1, "SubstrateUnderrunError", "public", BadTrapPdu),
     Msg("snmp", 1, "ok", "Public", BadTrapPdu),
     Msg("snmp", 1, "ok", "public", NoPdu),
     Msg("snmp", 1, "ok", "public", BadTrapPdu)} \cup
    {Msg("snmp", 1, "ok", "public", p) : p \in TrapPdus}

\* ------------------------------------------------------------ notifications
NoTrap == [host |-> "", oid |-> "", sent |-> 0, vbs |-> <<>>, severity |-> "",
           manager |-> "", expires |-> 0, id |-> 0]

\* The uniqueness key of a notification.
Key(trap) == <<trap.host, trap.oid, trap.sent, trap.vbs>>

\* --------------------------------------------------------------- validator
\* api.protoModules of pysnmp: the version tags with a protocol module.
protoModules == {0, 1}
\* api.protoVersion1, api.protoVersion2c.
HandledVersions == {0, 1}

Verdict(outcome, rule, counter, exc, trap) ==
    [outcome |-> outcome, rule |-> rule, counter |-> counter, exc |-> exc,
     trap |-> trap]

\* Notification.from_pdu(host, proto_module, version, req_pdu): None (NoTrap)
\* when the PDU does not convert.
FromPdu(host, pdu) ==
    IF pdu.conv
    THEN [host |-> host, oid |-> pdu.oid, sent |-> pdu.sent, vbs |-> VarBindsOf(pdu.oid),
          severity |-> "", manager |-> "", expires |-> 0, id |-> 0]
    ELSE NoTrap

\* Lower-casing of the community strings of the model.
Lower(c) == IF c = "Public" THEN "public" ELSE c

\* Mutant of CommunityRejected: the comparison ignores case.
CommunityRejectedFolded(secret, com) == secret # "" /\ Lower(com) # Lower(secret)

\* self.community and community != self.community
CommunityRejected(secret, com) == secret # "" /\ com # secret

\* Mutant of Validate: the community is compared before the version tag is
\* looked up.
ValidateCommunityFirst(m, host, secret) ==
    IF m.raw = "empty" THEN Verdict("Empty", 0, "", "none", NoTrap)
    ELSE IF m.raw = "garbage" THEN Verdict("Fault", 0, "", "ProtocolError", NoTrap)
    ELSE IF CommunityRejected(secret, m.community)
    THEN Verdict("CommunityMismatch", 2, "unauthenticated-notification", "none", NoTrap)
    ELSE IF m.vtag \notin protoModules
    THEN Verdict("UnsupportedVersion", 1, "unsupported-notification", "none", NoTrap)
    ELSE IF m.wire \in {"ProtocolError", "ValueConstraintError"}
    THEN Verdict("DecodeFailure", 0, "unsupported-notification", "none", NoTrap)
    ELSE IF m.wire # "ok" THEN Verdict("Fault", 0, "", m.wire, NoTrap)
    ELSE IF m.pdu.cls # "trap"
    THEN Verdict("WrongPduType", 3, "unsupported-notification", "none", NoTrap)
    ELSE IF m.vtag \notin HandledVersions
    THEN Verdict("UnsupportedVersion", 4, "unsupported-notification", "none", NoTrap)
    ELSE IF FromPdu(host, m.pdu) = NoTrap
    THEN Verdict("DecodeFailure", 5, "unsupported-notification", "none", NoTrap)
    ELSE Verdict("Accepted", 0, "", "none", FromPdu(host, m.pdu))

\* Lines 75-118 of _call: the outcome of the admission rules for message m
\* from host, with the configured community secret. rule is the number of the
\* rule of the specification that rejected (0: none did; the wire decode has
\* no rule number and is reported as rule 0 with outcome DecodeFailure).
Validate(m, host, secret) ==
    IF m.raw = "empty" THEN Verdict("Empty", 0, "", "none", NoTrap)
    ELSE IF m.raw = "garbage" THEN Verdict("Fault", 0, "", "ProtocolError", NoTrap)
    ELSE IF m.vtag \notin protoModules
    THEN Verdict("UnsupportedVersion", 1, "unsupported-notification", "none", NoTrap)
    ELSE IF m.wire \in {"ProtocolError", "ValueConstraintError"}
    THEN Verdict("DecodeFailure", 0, "unsupported-notification", "none", NoTrap)
    ELSE IF m.wire # "ok" THEN Verdict("Fault", 0, "", m.wire, NoTrap)
    ELSE IF CommunityRejected(secret, m.community)
    THEN Verdict("CommunityMismatch", 2, "unauthenticated-notification", "none", NoTrap)
    ELSE IF m.pdu.cls # "trap"
    THEN Verdict("WrongPduType", 3, "unsupported-notification", "none", NoTrap)
    ELSE IF m.vtag \notin HandledVersions
    THEN Verdict("UnsupportedVersion", 4, "unsupported-notification", "none", NoTrap)
    ELSE IF FromPdu(host, m.pdu) = NoTrap
    THEN Verdict("DecodeFailure", 5, "unsupported-notification", "none", NoTrap)
    ELSE Verdict("Accepted", 0, "", "none", FromPdu(host, m.pdu))

\* ------------------------------------------------------------------ policy
\* The enrichment plug-in: the no-op of lines 24-25, or an installed
\* trapperkeeper_dde_plugin.run that changes the policy or raises.
Hooks == {"noop", "escalate", "raise"}

DdeRun(hook, h) ==
    IF hook = "escalate" THEN [h EXCEPT !.severity = "critical"] ELSE h

\* Mutant of ApplyPolicy: the expiration is stored as the expiry time.
ApplyPolicyExpiresIsDuration(t, h) ==
    [t EXCEPT !.severity = h.severity, !.manager = ThisHost,
              !.expires = IF h.expiration # 0 THEN h.expiration ELSE @]

\* Lines 124-130: severity, manager and expires set from the policy.
ApplyPolicy(t, h) ==
    [t EXCEPT !.severity = h.severity, !.manager = ThisHost,
              !.expires = IF h.expiration # 0 THEN t.sent + h.expiration ELSE @]

\* ----------------------------------------------------------------- session
\* The SQLAlchemy session self.conn: the state of its transaction and the
\* objects added and not yet flushed (the threads whose notification they
\* are, in the order of the add() calls).
NewSession == [txn |-> "active", pending |-> <<>>]

\* conn.add(trap)
SessionAdd(s, t) == [s EXCEPT !.pending = Append(@, t)]

\* conn.rollback()
SessionRollback(s) == [txn |-> "active", pending |-> <<>>]

\* The uniqueness constraint of the notifications table: row i of rows has
\* the key of a stored row or of an earlier row of the same flush.
ViolatesUnique(rows, st) ==
    \E i \in 1..Len(rows) :
        \/ \E j \in 1..Len(st) : Key(st[j]) = Key(rows[i])
        \/ \E j \in 1..(i - 1) : Key(rows[j]) = Key(rows[i])

\* Mutant of IdAfterWrite: the identifier is looked up by the uniqueness key,
\* so a notification that was refused gets that of the stored record.
IdByKey(tr, committed, id, st) ==
    IF committed THEN id
    ELSE IF \E j \in 1..Len(st) : Key(st[j]) = Key(tr)
    THEN (CHOOSE j \in 1..Len(st) : Key(st[j]) = Key(tr))
    ELSE tr.id

\* The id attribute of notification tr after a commit that had it among its
\* rows: the identifier the store assigned when the commit went through,
\* otherwise what it was.
IdAfterWrite(tr, committed, id, st) == IF committed THEN id ELSE tr.id

\* The rows of a flush with the identifiers the store assigns.
Stored(rows, st) == [i \in 1..Len(rows) |-> [rows[i] EXCEPT !.id = Len(st) + i]]

\* conn.commit() with rows the pending notifications, st the store and f the
\* fault of the store during the flush ("none" when it is healthy). A session
\* whose transaction a failed flush has left inactive refuses with
\* InvalidRequestError; a failed flush discards the pending objects and
\* leaves the transaction inactive until rollback().
SessionCommit(s, rows, st, f) ==
    IF s.txn = "inactive"
    THEN [exc |-> "InvalidRequestError", sess |-> s, store |-> st]
    ELSE IF rows = <<>>
    THEN [exc |-> "none", sess |-> s, store |-> st]
    ELSE IF f # "none"
    THEN [exc |-> f, sess |-> [txn |-> "inactive", pending |-> <<>>], store |-> st]
    ELSE IF ViolatesUnique(rows, st)
    THEN [exc |-> "IntegrityError", sess |-> [txn |-> "inactive", pending |-> <<>>],
          store |-> st]
    ELSE [exc |-> "none", sess |-> [txn |-> "active", pending |-> <<>>],
          store |-> st \o Stored(rows, st)]

\* The faults of the store during a commit: unreachable (OperationalError) or
\* a statement the database refuses (DataError), which _call does not catch.
StoreFaults == {"OperationalError", "DataError"}

\* ------------------------------------------------------------------- state
VARIABLES
    community,   \* self.community, the configured secret
    config,      \* self.config.handlers, the policy table
    cbOf,        \* thread -> the TrapperCallback it invokes
    limit,       \* invocations each thread makes
    audit,       \* whether the received message is kept in obs
    budget,      \* upsets the environment may cause in this behaviour
    store,       \* the committed rows of the notifications table
    sess,        \* callback -> its session self.conn
    stats,       \* callback -> the expvar counters of its process
    faults,      \* faults injected so far
    pc,          \* thread -> its position in __call__/_call
    trap,        \* thread -> the local trap
    handler,     \* thread -> the local handler
    duplicate,   \* thread -> the local duplicate
    exc,         \* thread -> the exception in flight ("none")
    calls,       \* thread -> invocations completed
    obs,         \* thread -> what the current invocation did
    writes,      \* key -> how its presentations to the store ended so far
    broke        \* whether the store has failed during a commit

vars == <<community, config, cbOf, limit, audit, budget, store, sess, stats, faults,
          pc, trap, handler, duplicate, exc, calls, obs, writes, broke>>

Threads == DOMAIN cbOf
Callbacks == {cbOf[t] : t \in Threads}

\* The keys of the notifications the messages of the model convert to.
Keys == {<<h, p.oid, p.sent, VarBindsOf(p.oid)>> : h \in Hosts, p \in TrapPdus}

NoWrites == [presented |-> 0, success |-> 0, duplicate |-> 0, failed |-> 0]

NoHandler == Handler("", 0, FALSE, NoMail, FALSE)

\* No document has been handed to the index client.
NoDoc == [k \in {} |-> ""]
Zero == [c \in Counters |-> 0]

NoObs == [msg |-> EmptyMsg, outcome |-> "none", rule |-> 0, policy |-> NoHandler,
          hook |-> "noop", write |-> "none", mail |-> "none", index |-> "none",
          raised |-> {}, escaped |-> "none", caught |-> "none", incs |-> Zero,
          returned |-> FALSE, doc |-> NoDoc]

\* stats.incr(name, 1) for each name of the sequence names.
Bump(f, names) ==
    [c \in Counters |-> f[c] + Cardinality({i \in 1..Len(names) : names[i] = c})]

InitWith(topology, lim, aud, secrets, tables, upsets) ==
    /\ community \in secrets
    /\ config \in tables
    /\ budget = upsets
    /\ cbOf = topology
    /\ limit = lim
    /\ audit = aud
    /\ store = <<>>
    /\ sess = [c \in {topology[t] : t \in DOMAIN topology} |-> NewSession]
    /\ stats = [c \in {topology[t] : t \in DOMAIN topology} |-> Zero]
    /\ faults = 0
    /\ pc = [t \in DOMAIN topology |-> "idle"]
    /\ trap = [t \in DOMAIN topology |-> NoTrap]
    /\ handler = [t \in DOMAIN topology |-> NoHandler]
    /\ duplicate = [t \in DOMAIN topology |-> FALSE]
    /\ exc = [t \in DOMAIN topology |-> "none"]
    /\ calls = [t \in DOMAIN topology |-> 0]
    /\ obs = [t \in DOMAIN topology |-> NoObs]
    /\ writes = [k \in Keys |-> NoWrites]
    /\ broke = FALSE

\* One dispatcher thread invoking one callback.
Init == InitWith(<<1>>, MaxCalls, FALSE, {"public"}, Tables, MaxFaults)

\* ----------------------------------------------------------------- actions
Step(o, p, tr, h, e, names) ==
    [outcome |-> o, pc |-> p, trap |-> tr, handler |-> h, exc |-> e, incs |-> names]

\* Mutant of Admit: a blackholed trap is counted and then stored like any
\* other (the return of line 137 is missing).
AdmitBlackholeFallsThrough(m, host, hook, secret, cfg) ==
    LET v == Validate(m, host, secret) IN
    IF v.outcome # "Accepted"
    THEN Step(v.outcome, "return", NoTrap, NoHandler, v.exc,
              IF v.counter = "" THEN <<>> ELSE <<v.counter>>)
    ELSE IF hook = "raise"
    THEN Step("Fault", "return", v.trap, NoHandler, "PluginError", <<>>)
    ELSE LET h == DdeRun(hook, cfg[v.trap.oid])
             tr == ApplyPolicy(v.trap, h) IN
         IF h.blackhole
         THEN Step("Blackholed", "add", tr, h, "none",
                   <<"traps_received", "traps_blackholed", "traps_accepted">>)
         ELSE Step("Accepted", "add", tr, h, "none",
                   <<"traps_received", "traps_accepted">>)

\* Mutant of Admit: traps_received is incremented after the blackhole test, so
\* a blackholed trap is not counted as received.
AdmitReceivedAfterBlackhole(m, host, hook, secret, cfg) ==
    LET v == Validate(m, host, secret) IN
    IF v.outcome # "Accepted"
    THEN Step(v.outcome, "return", NoTrap, NoHandler, v.exc,
              IF v.counter = "" THEN <<>> ELSE <<v.counter>>)
    ELSE IF hook = "raise"
    THEN Step("Fault", "return", v.trap, NoHandler, "PluginError", <<>>)
    ELSE LET h == DdeRun(hook, cfg[v.trap.oid])
             tr == ApplyPolicy(v.trap, h) IN
         IF h.blackhole
         THEN Step("Blackholed", "return", tr, h, "none", <<"traps_blackholed">>)
         ELSE Step("Accepted", "add", tr, h, "none",
                   <<"traps_received", "traps_accepted">>)

\* Lines 74-140 of _call for message m from host, with the plug-in behaving
\* as hook: validation, policy look-up, plug-in, policy application, the
\* blackhole test. pc is where _call goes on: "add" (line 143) or "return".
Admit(m, host, hook, secret, cfg) ==
    LET v == Validate(m, host, secret) IN
    IF v.outcome # "Accepted"
    THEN Step(v.outcome, "return", NoTrap, NoHandler, v.exc,
              IF v.counter = "" THEN <<>> ELSE <<v.counter>>)
    ELSE IF hook = "raise"
    THEN Step("Fault", "return", v.trap, NoHandler, "PluginError", <<>>)
    ELSE LET h == DdeRun(hook, cfg[v.trap.oid])
             tr == ApplyPolicy(v.trap, h) IN
         IF h.blackhole
         THEN Step("Blackholed", "return", tr, h, "none",
                   <<"traps_received", "traps_blackholed">>)
         ELSE Step("Accepted", "add", tr, h, "none",
                   <<"traps_received", "traps_accepted">>)

\* The dispatcher invokes the callback with a message: __call__ enters _call,
\* which runs up to the store write or returns.
Receive(t, m, host, hook) ==
    /\ pc[t] \in {"idle", "done"}
    /\ calls[t] < limit
    /\ m \in (IF audit THEN Messages ELSE CoreMessages)
    /\ LET a == Admit(m, host, hook, community, config)
           v == Validate(m, host, community)
           ran == v.outcome = "Accepted"
           upset == IF ran THEN hook # "noop" ELSE v.outcome # "Empty" IN
       /\ ~ran => hook = "noop"
       /\ upset => faults < budget
       /\ faults' = IF upset THEN faults + 1 ELSE faults
       /\ pc' = [pc EXCEPT ![t] = a.pc]
       /\ trap' = [trap EXCEPT ![t] = a.trap]
       /\ handler' = [handler EXCEPT ![t] = a.handler]
       /\ duplicate' = [duplicate EXCEPT ![t] = FALSE]
       /\ exc' = [exc EXCEPT ![t] = a.exc]
       /\ stats' = [stats EXCEPT ![cbOf[t]] = Bump(@, a.incs)]
       /\ obs' = [obs EXCEPT ![t] =
                    [NoObs EXCEPT !.msg = IF audit THEN m ELSE EmptyMsg,
                                  !.outcome = a.outcome,
                                  !.rule = v.rule,
                                  !.policy = IF ran THEN config[v.trap.oid] ELSE NoHandler,
                                  !.hook = IF ran THEN hook ELSE "noop",
                                  !.raised =
                                      (IF a.exc = "none" THEN {} ELSE {a.exc}) \cup
                                      (IF v.outcome = "DecodeFailure" /\ v.rule = 0
                                       THEN {m.wire} ELSE {}),
                                  !.escaped = a.exc,
                                  !.incs = Bump(Zero, a.incs)]]
    /\ UNCHANGED <<community, config, cbOf, limit, audit, budget, store, sess, calls,
                   writes, broke>>

\* Lines 143-146: duplicate = False, db_write_attempted, self.conn.add(trap).
Add(t) ==
    /\ pc[t] = "add"
    /\ pc' = [pc EXCEPT ![t] = "commit"]
    /\ sess' = [sess EXCEPT ![cbOf[t]] = SessionAdd(@, t)]
    /\ stats' = [stats EXCEPT ![cbOf[t]] = Bump(@, <<"db_write_attempted">>)]
    /\ obs' = [obs EXCEPT ![t].incs = Bump(@, <<"db_write_attempted">>)]
    /\ writes' = [writes EXCEPT ![Key(trap[t])].presented = @ + 1]
    /\ UNCHANGED <<community, config, cbOf, limit, audit, budget, store, faults, trap,
                   handler, duplicate, exc, calls, broke>>

\* Mutant of CaughtByWrite: no except clause for IntegrityError.
CaughtWithoutIntegrity == {"OperationalError", "InvalidRequestError"}

\* The exceptions _call catches around add/commit (lines 149, 154, 159).
CaughtByWrite == {"OperationalError", "InvalidRequestError", "IntegrityError"}

\* Lines 147-148: self.conn.commit(), then db_write_successful. An exception
\* goes to its except clause, or leaves _call when there is none.
Commit(t, f) ==
    /\ pc[t] = "commit"
    /\ f \in StoreFaults =>
          /\ faults < budget
          /\ sess[cbOf[t]].txn = "active"
          /\ sess[cbOf[t]].pending # <<>>
    /\ LET s == sess[cbOf[t]]
           rows == [i \in 1..Len(s.pending) |-> trap[s.pending[i]]]
           r == SessionCommit(s, rows, store, f)
           done == r.exc = "none" /\ s.txn = "active"
           names == IF r.exc = "none" THEN <<"db_write_successful">> ELSE <<>> IN
       /\ sess' = [sess EXCEPT ![cbOf[t]] = r.sess]
       /\ store' = r.store
       /\ trap' = [u \in Threads |->
                    IF \E i \in 1..Len(s.pending) : s.pending[i] = u
                    THEN [trap[u] EXCEPT !.id =
                            IdAfterWrite(trap[u], done,
                                Len(store) + CHOOSE i \in 1..Len(s.pending) : s.pending[i] = u,
                                store)]
                    ELSE trap[u]]
       /\ exc' = [exc EXCEPT ![t] = r.exc]
       /\ pc' = [pc EXCEPT ![t] =
                   IF r.exc = "none" THEN "mail"
                   ELSE IF r.exc \in CaughtByWrite THEN "except" ELSE "return"]
       /\ stats' = [stats EXCEPT ![cbOf[t]] = Bump(@, names)]
       /\ faults' = IF f \in StoreFaults THEN faults + 1 ELSE faults
       /\ obs' = [obs EXCEPT ![t].incs = Bump(@, names),
                             ![t].write = IF r.exc = "none" THEN "success" ELSE @,
                             ![t].raised = IF r.exc = "none" THEN @ ELSE @ \cup {r.exc},
                             ![t].escaped = IF r.exc \in CaughtByWrite THEN "none"
                                            ELSE r.exc]
       /\ writes' = IF r.exc = "none"
                    THEN [writes EXCEPT ![Key(trap[t])].success = @ + 1]
                    ELSE writes
       /\ broke' = (broke \/ r.exc \in StoreFaults)
    /\ UNCHANGED <<community, config, cbOf, limit, audit, budget, handler, duplicate, calls>>

\* Mutant of Clause: a uniqueness violation is handled like any failed write.
ClauseAllFailed(e) ==
    [counter |-> "db_write_failed", duplicate |-> FALSE, rollback |-> TRUE,
     write |-> "failed"]

\* Mutant of Clause: a failed write is counted but not rolled back.
ClauseNoRollback(e) ==
    IF e = "IntegrityError"
    THEN [counter |-> "db_write_duplicate", duplicate |-> TRUE, rollback |-> TRUE,
          write |-> "duplicate"]
    ELSE [counter |-> "db_write_failed", duplicate |-> FALSE, rollback |-> FALSE,
          write |-> "failed"]

\* Mutant of Clause: the clause for IntegrityError does not roll back.
ClauseDuplicateNoRollback(e) ==
    IF e = "IntegrityError"
    THEN [counter |-> "db_write_duplicate", duplicate |-> TRUE, rollback |-> FALSE,
          write |-> "duplicate"]
    ELSE [counter |-> "db_write_failed", duplicate |-> FALSE, rollback |-> TRUE,
          write |-> "failed"]

\* What an except clause of lines 149-164 does for exception e: the counter
\* it increments, the value of duplicate, and whether it rolls back.
Clause(e) ==
    IF e = "IntegrityError"
    THEN [counter |-> "db_write_duplicate", duplicate |-> TRUE, rollback |-> TRUE,
          write |-> "duplicate"]
    ELSE [counter |-> "db_write_failed", duplicate |-> FALSE, rollback |-> TRUE,
          write |-> "failed"]

\* Lines 149-164: the except clause for the exception of the commit.
Except(t) ==
    /\ pc[t] = "except"
    /\ LET c == Clause(exc[t]) IN
       /\ sess' = [sess EXCEPT ![cbOf[t]] = IF c.rollback THEN SessionRollback(@) ELSE @]
       /\ duplicate' = [duplicate EXCEPT ![t] = c.duplicate]
       /\ stats' = [stats EXCEPT ![cbOf[t]] = Bump(@, <<c.counter>>)]
       /\ obs' = [obs EXCEPT ![t].incs = Bump(@, <<c.counter>>), ![t].write = c.write]
       /\ writes' = [writes EXCEPT ![Key(trap[t])] =
                       IF c.duplicate THEN [@ EXCEPT !.duplicate = @ + 1]
                       ELSE [@ EXCEPT !.failed = @ + 1]]
    /\ exc' = [exc EXCEPT ![t] = "none"]
    /\ pc' = [pc EXCEPT ![t] = "mail"]
    /\ UNCHANGED <<community, config, cbOf, limit, audit, budget, store, faults, trap,
                   handler, calls, broke>>

\* Mutant of MailSkipped: a duplicate never sends mail, whatever the policy.
MailSkippedOnAnyDuplicate(h, is_duplicate) ==
    \/ is_duplicate
    \/ ~h.mail.configured
    \/ h.mail.recipients = {}

\* Lines 47-56 of _send_mail: the three conditions under which no mail is sent.
MailSkipped(h, is_duplicate) ==
    \/ is_duplicate /\ ~h.mail_on_duplicate
    \/ ~h.mail.configured
    \/ h.mail.recipients = {}

\* What building and sending the mail can do: succeed, fail in the transport
\* (socket.error), raise while the subject is built (lines 58-63), or raise
\* another exception inside send_trap_email.
MailResults == {"ok", "socket.error", "KeyError", "TemplateError"}

Sent(mail, e, names) == [mail |-> mail, exc |-> e, incs |-> names]

\* _send_mail(handler, trap, is_duplicate), lines 46-72, when building and
\* sending the mail does r.
SendMailResult(h, is_duplicate, r) ==
    IF MailSkipped(h, is_duplicate) THEN Sent("skipped", "none", <<>>)
    ELSE IF r = "KeyError" THEN Sent("raised", r, <<>>)
    ELSE IF r = "ok"
    THEN Sent("sent", "none", <<"mail_sent_attempted", "mail_sent_successful">>)
    ELSE IF r = "socket.error"
    THEN Sent("failed", "none", <<"mail_sent_attempted", "mail_sent_failed">>)
    ELSE Sent("raised", r, <<"mail_sent_attempted">>)

\* Line 166: self._send_mail(handler, trap, duplicate).
SendMail(t, r) ==
    /\ pc[t] = "mail"
    /\ r # "ok" => faults < budget /\ ~MailSkipped(handler[t], duplicate[t])
    /\ LET m == SendMailResult(handler[t], duplicate[t], r) IN
       /\ exc' = [exc EXCEPT ![t] = m.exc]
       /\ pc' = [pc EXCEPT ![t] = IF m.exc = "none" THEN "index" ELSE "return"]
       /\ stats' = [stats EXCEPT ![cbOf[t]] = Bump(@, m.incs)]
       /\ obs' = [obs EXCEPT ![t].incs = Bump(@, m.incs),
                             ![t].mail = m.mail,
                             ![t].raised = IF r = "ok" THEN @ ELSE @ \cup {r},
                             ![t].escaped = m.exc]
    /\ faults' = IF r # "ok" THEN faults + 1 ELSE faults
    /\ UNCHANGED <<community, config, cbOf, limit, audit, budget, store, sess, trap,
                   handler, duplicate, calls, writes, broke>>

\* ------------------------------------------------------------ index document
\* dict.update(e) and del d[k] of Python.
Update(d, e) ==
    [k \in DOMAIN d \cup DOMAIN e |-> IF k \in DOMAIN e THEN e[k] ELSE d[k]]
Delete(d, k) == [x \in DOMAIN d \ {k} |-> d[x]]

\* Notification.to_dict(): the base fields of the notification; id is 0
\* (None) until the store has assigned one.
ToDict(tr) ==
    [k \in {"id", "host", "oid", "sent", "severity", "manager", "expires"} |-> tr[k]]

\* ObjectId(oid).name
MibName(o) == "TRAP-MIB::" \o o

\* Mutant of TransformVarbind: the symbolic name maps to the raw value.
TransformVarbindRawOnly(d) ==
    Update(Update((d.name :> d.value), (d.oid :> d.value)),
           ((d.name \o ":type") :> d.value_type))

\* transform_varbind, lines 206-220: the three keys of one variable binding,
\* in the order of the dict literal.
TransformVarbind(d) ==
    Update(Update((d.name :> d.pretty_value), (d.oid :> d.value)),
           ((d.name \o ":type") :> d.value_type))

\* Lines 189-190: trap_index.update(transform_varbind(vb)) for each vb.
RECURSIVE UpdateAll(_, _)
UpdateAll(d, vbs) ==
    IF vbs = <<>> THEN d
    ELSE UpdateAll(Update(d, TransformVarbind(Head(vbs))), Tail(vbs))

\* Lines 186-194: the document built for the notification tr.
IndexDocument(tr) ==
    LET flat == UpdateAll(Update(NoDoc, ToDict(tr)), tr.vbs)
        withId == Update(flat, ("notification_id" :> flat["id"]))
        named == Update(withId, ("mib_name" :> MibName(tr.oid))) IN
    Delete(named, "id")

\* What the index client can do: index the document or fail in the transport.
IndexResults == {"ok", "ConnectionError"}

\* Line 169: self._index_to_elasticsearch(trap), lines 171-198: the document
\* is built and handed to index_trap_to_elasticsearch; nothing is caught.
Index(t, r) ==
    /\ pc[t] = "index"
    /\ r # "ok" => faults < budget
    /\ exc' = [exc EXCEPT ![t] = IF r = "ok" THEN "none" ELSE r]
    /\ pc' = [pc EXCEPT ![t] = "return"]
    /\ obs' = [obs EXCEPT ![t].doc = IndexDocument(trap[t]),
                          ![t].index = IF r = "ok" THEN "indexed" ELSE "failed",
                          ![t].raised = IF r = "ok" THEN @ ELSE @ \cup {r},
                          ![t].escaped = IF r = "ok" THEN "none" ELSE r]
    /\ faults' = IF r # "ok" THEN faults + 1 ELSE faults
    /\ UNCHANGED <<community, config, cbOf, limit, audit, budget, store, sess, stats,
                   trap, handler, duplicate, calls, writes, broke>>

\* Mutant of Boundary: the exception is logged but not counted.
BoundaryUncounted(e) == [incs |-> <<>>, caught |-> e]

\* __call__, lines 37-44: _call has returned or raised e; an Exception is
\* counted as callback-failure, logged and swallowed.
Boundary(e) ==
    IF e = "none" THEN [incs |-> <<>>, caught |-> "none"]
    ELSE [incs |-> <<"callback-failure">>, caught |-> e]

Return(t) ==
    /\ pc[t] = "return"
    /\ LET b == Boundary(exc[t]) IN
       /\ stats' = [stats EXCEPT ![cbOf[t]] = Bump(@, b.incs)]
       /\ obs' = [obs EXCEPT ![t].incs = Bump(@, b.incs),
                             ![t].caught = b.caught,
                             ![t].returned = TRUE]
    /\ exc' = [exc EXCEPT ![t] = "none"]
    /\ pc' = [pc EXCEPT ![t] = "done"]
    /\ calls' = [calls EXCEPT ![t] = @ + 1]
    /\ UNCHANGED <<community, config, cbOf, limit, audit, budget, store, sess, faults,
                   trap, handler, duplicate, writes, broke>>

Receiving == \E t \in Threads, m \in Messages, host \in Hosts, hook \in Hooks :
                 Receive(t, m, host, hook)
Adding == \E t \in Threads : Add(t)
Committing == \E t \in Threads, f \in StoreFaults \cup {"none"} : Commit(t, f)
Handling == \E t \in Threads : Except(t)
Mailing == \E t \in Threads, r \in MailResults : SendMail(t, r)
Indexing == \E t \in Threads, r \in IndexResults : Index(t, r)
Returning == \E t \in Threads : Return(t)

Next ==
    \/ Receiving
    \/ Adding
    \/ Committing
    \/ Handling
    \/ Mailing
    \/ Indexing
    \/ Returning

Spec == Init /\ [][Next]_vars

\* The same dispatcher, with the received message kept in obs and both
\* settings of the community secret.
InitAudit == InitWith(<<1>>, AuditCalls, TRUE, Secrets, Tables, MaxFaults)
SpecAudit == InitAudit /\ [][Next]_vars

\* Peer ingesters: each its own callback, session and counters, one store.
\* Each is delivered one message; the store is healthy and nothing else
\* upsets the pipeline.
InitPeers == InitWith([t \in 1..NumPeers |-> t], 1, FALSE, {"public"},
                      {PlainTable}, 0)
SpecPeers == InitPeers /\ [][Next]_vars

\* A multi-threaded transport: the threads invoke the same TrapperCallback,
\* so they share its session self.conn and its counters. The store is
\* healthy and nothing else upsets the pipeline.
InitShared == InitWith([t \in 1..NumThreads |-> 1], SharedCalls, FALSE, {"public"},
                       {PlainTable}, 0)
SpecShared == InitShared /\ [][Next]_vars

\* ================================================================= claims
\* The number of stored rows with key k.
Rows(k) == Cardinality({i \in 1..Len(store) : Key(store[i]) = k})

\* Thread t has finished the store write of its current invocation.
Wrote(t) == obs[t].write # "none" /\ pc[t] \in {"mail", "index", "return", "done"}

\* The session of thread t holds no pending write and an active transaction.
RolledBack(t) == sess[cbOf[t]] = NewSession

\* C1: while the store is healthy, a logical trap presented N >= 1 times by
\* one dispatcher has exactly one stored row; its first presentation commits
\* (db_write_successful) and every later one is rolled back and reported as
\* a duplicate (duplicate = True, db_write_duplicate), never as a failure.
C1_IdempotentPersistence ==
    ~broke =>
        \A t \in Threads :
            Wrote(t) =>
                LET k == Key(trap[t]) IN
                /\ Rows(k) = 1
                /\ writes[k].failed = 0
                /\ writes[k].presented = 1 =>
                      /\ obs[t].write = "success"
                      /\ ~duplicate[t]
                      /\ obs[t].incs["db_write_successful"] = 1
                      /\ obs[t].incs["db_write_duplicate"] = 0
                /\ writes[k].presented > 1 =>
                      /\ obs[t].write = "duplicate"
                      /\ duplicate[t]
                      /\ RolledBack(t)
                      /\ obs[t].incs["db_write_duplicate"] = 1
                      /\ obs[t].incs["db_write_successful"] = 0
                      /\ obs[t].incs["db_write_failed"] = 0
                      /\ obs[t].escaped # "IntegrityError"

\* C1 witness: the second presentation of a stored trap has ended as a
\* duplicate.
C1_Witness ==
    \E t \in Threads :
        /\ pc[t] = "done"
        /\ ~broke
        /\ obs[t].write = "duplicate"
        /\ writes[Key(trap[t])].presented = 2
        /\ Rows(Key(trap[t])) = 1

\* Some thread is between its add and the end of its except clause for key k.
Writing(k) == \E t \in Threads : pc[t] \in {"commit", "except"} /\ Key(trap[t]) = k

\* C2: peer ingesters with their own sessions on one healthy store, their
\* add and commit steps interleaved in any order: a key never has two rows,
\* and once every ingester that presented it has finished its write it has
\* exactly one row, exactly one commit succeeded and every other presentation
\* was rolled back and reported as a duplicate.
C2_ConcurrentDuplicateSuppression ==
    \A k \in Keys :
        /\ Rows(k) <= 1
        /\ (writes[k].presented >= 1 /\ ~Writing(k)) =>
              /\ Rows(k) = 1
              /\ writes[k].success = 1
              /\ writes[k].duplicate = writes[k].presented - 1
              /\ writes[k].failed = 0
        /\ \A t \in Threads :
              (Wrote(t) /\ Key(trap[t]) = k /\ obs[t].write = "duplicate") =>
                  duplicate[t] /\ RolledBack(t) /\ obs[t].escaped # "IntegrityError"

\* C2 witness: two ingesters had the same trap pending at the same time; one
\* committed and the other was refused.
C2_Witness ==
    \E t, u \in Threads :
        /\ t # u
        /\ Key(trap[t]) = Key(trap[u])
        /\ pc[t] = "done" /\ obs[t].write = "success"
        /\ pc[u] = "done" /\ obs[u].write = "duplicate"
        /\ trap[t].id = 1 /\ Len(store) = 1

\* C3: a trap whose resolved policy has blackhole = true increments
\* traps_blackholed and returns: no db_write_attempted, no add or commit, no
\* alerting, no indexing, and traps_accepted is not incremented.
C3_BlackholeHalts ==
    \A t \in Threads :
        (pc[t] # "idle" /\ handler[t].blackhole) =>
            /\ obs[t].outcome = "Blackholed"
            /\ pc[t] \in {"return", "done"}
            /\ obs[t].incs["traps_blackholed"] = 1
            /\ obs[t].incs["traps_accepted"] = 0
            /\ obs[t].incs["db_write_attempted"] = 0
            /\ obs[t].write = "none"
            /\ obs[t].mail = "none"
            /\ obs[t].index = "none"
            /\ obs[t].escaped = "none"
            /\ \A i \in 1..Len(sess[cbOf[t]].pending) : sess[cbOf[t]].pending[i] # t
            /\ writes[Key(trap[t])].presented = 0
            /\ Rows(Key(trap[t])) = 0

\* C3 witness: an invocation has ended for a blackholed trap.
C3_Witness ==
    \E t \in Threads :
        /\ pc[t] = "done"
        /\ handler[t].blackhole
        /\ obs[t].outcome = "Blackholed"
        /\ store = <<>>

\* C4: when the commit fails because the store is unreachable or the session
\* is in an invalid transactional state, the invocation has made one write
\* attempt, rolls back, increments db_write_failed, leaves duplicate False
\* and goes on to the fan-out: the alerting decision is taken and, when
\* _send_mail returns, the notification is indexed.
C4_TransientFailure ==
    \A t \in Threads :
        (Wrote(t) /\ obs[t].write = "failed") =>
            /\ obs[t].raised \cap {"OperationalError", "InvalidRequestError"} # {}
            /\ obs[t].incs["db_write_attempted"] = 1
            /\ obs[t].incs["db_write_failed"] = 1
            /\ obs[t].incs["db_write_successful"] = 0
            /\ obs[t].incs["db_write_duplicate"] = 0
            /\ ~duplicate[t]
            /\ trap[t].id = 0
            /\ pc[t] = "mail" => RolledBack(t)
            /\ pc[t] \in {"index", "return", "done"} => obs[t].mail # "none"
            /\ (pc[t] = "done" /\ obs[t].mail \in {"skipped", "sent", "failed"}) =>
                  obs[t].index # "none"

\* C4 witness: an invocation whose commit found the store unreachable has
\* ended after indexing.
C4_Witness ==
    \E t \in Threads :
        /\ pc[t] = "done"
        /\ obs[t].write = "failed"
        /\ "OperationalError" \in obs[t].raised
        /\ obs[t].mail \in {"skipped", "sent"}
        /\ obs[t].index = "indexed"

\* The dispatcher can invoke the callback of thread t again.
Invocable(t) == ENABLED (\E h \in Hosts : Receive(t, EmptyMsg, h, "noop"))

\* C5 as stated: whatever fault was raised in a stage of the invocation,
\* __call__ has returned normally, callback-failure was incremented exactly
\* once and the callback can be invoked again.
C5_AnyFaultCounted ==
    \A t \in Threads :
        (pc[t] = "done" /\ obs[t].raised # {}) =>
            /\ exc[t] = "none"
            /\ obs[t].incs["callback-failure"] = 1
            /\ calls[t] < limit => Invocable(t)

\* C5 amended: __call__ always returns normally; callback-failure is
\* incremented exactly once for a message when a fault left _call (was not
\* handled by the stage that raised it), and not at all otherwise; the
\* callback can then be invoked for the next message.
C5_TopLevelIsolation ==
    \A t \in Threads :
        /\ exc[t] # "none" => pc[t] \in {"except", "return"}
        /\ pc[t] = "return" => exc[t] = obs[t].escaped /\ ENABLED Return(t)
        /\ obs[t].returned =>
              /\ pc[t] = "done"
              /\ exc[t] = "none"
              /\ obs[t].caught = obs[t].escaped
              /\ obs[t].incs["callback-failure"] =
                    (IF obs[t].escaped = "none" THEN 0 ELSE 1)
              /\ calls[t] < limit => Invocable(t)

\* C5 witness: after an invocation whose fault was counted at the boundary,
\* the same callback has stored the trap of the next message.
C5_Witness ==
    \E t \in Threads :
        /\ pc[t] = "done"
        /\ calls[t] = 2
        /\ stats[cbOf[t]]["callback-failure"] = 1
        /\ obs[t].incs["callback-failure"] = 0
        /\ obs[t].write = "success"

\* The code went past the three tests of _send_mail to build and send the mail.
Dispatched(t) == obs[t].mail \in {"sent", "failed", "raised"}

MailFaults == {"socket.error", "KeyError", "TemplateError"}

\* C6: for a notification that reached the fan-out, mail is dispatched iff
\* not (duplicate and the policy has no send-on-duplicate) and a mail rule is
\* configured and it has recipients; each skip returns without raising.
C6_AlertingDecision ==
    \A t \in Threads :
        obs[t].mail # "none" =>
            /\ Dispatched(t) <=>
                  /\ ~(duplicate[t] /\ ~handler[t].mail_on_duplicate)
                  /\ handler[t].mail.configured
                  /\ handler[t].mail.recipients # {}
            /\ obs[t].mail = "skipped" =>
                  /\ obs[t].raised \cap MailFaults = {}
                  /\ obs[t].incs["mail_sent_attempted"] = 0
                  /\ obs[t].incs["mail_sent_successful"] = 0
                  /\ obs[t].incs["mail_sent_failed"] = 0
                  /\ pc[t] = "index" => exc[t] = "none"
            /\ obs[t].mail \in {"sent", "failed"} =>
                  obs[t].incs["mail_sent_attempted"] = 1

\* C6 witness: the second presentation of a stored trap, under a policy with
\* recipients and without send-on-duplicate, sent no mail and was indexed.
C6_Witness ==
    \E t \in Threads :
        /\ pc[t] = "done"
        /\ duplicate[t]
        /\ ~handler[t].mail_on_duplicate
        /\ handler[t].mail.recipients # {}
        /\ obs[t].mail = "skipped"
        /\ obs[t].index = "indexed"

\* C7: every notification that reached the fan-out has had its index
\* dispatch attempted by the end of the invocation, whatever the alerting
\* action did.
C7_IndexingAlwaysAttempted ==
    \A t \in Threads :
        (pc[t] = "done" /\ obs[t].mail # "none") => obs[t].index # "none"

\* The admission rules of the validator as the specification numbers them:
\* the rules message m fails under the configured secret.
FailedRules(m, secret) ==
    {i \in 1..5 :
        \/ i = 1 /\ m.vtag \notin {0, 1}
        \/ i = 2 /\ secret # "" /\ m.community # secret
        \/ i = 3 /\ m.pdu.cls # "trap"
        \/ i = 4 /\ m.vtag \notin {0, 1}
        \/ i = 5 /\ ~m.pdu.conv}

RuleOutcome(i) ==
    CASE i = 1 -> "UnsupportedVersion"
      [] i = 2 -> "CommunityMismatch"
      [] i = 3 -> "WrongPduType"
      [] i = 4 -> "UnsupportedVersion"
      [] i = 5 -> "DecodeFailure"

First(S) == CHOOSE i \in S : \A j \in S : i <= j

\* The invocation of thread t stopped in the validator: no notification, no
\* policy, no store write, no fan-out, traps_received not incremented.
StoppedInValidator(t) ==
    /\ trap[t] = NoTrap
    /\ handler[t] = NoHandler
    /\ pc[t] \in {"return", "done"}
    /\ obs[t].incs["traps_received"] = 0
    /\ obs[t].incs["db_write_attempted"] = 0
    /\ obs[t].write = "none" /\ obs[t].mail = "none" /\ obs[t].index = "none"

\* C8: a message with an unrecognized version tag ends as UnsupportedVersion
\* with no notification built and no later stage reached; for a message the
\* wire decoder accepts, the first failing rule in the order (1) version tag,
\* (2) community, (3) trap PDU, (4) v1/v2c, (5) conversion alone decides
\* the outcome.
C8_RuleOrder ==
    \A t \in Threads :
        (pc[t] # "idle" /\ obs[t].msg.raw = "snmp") =>
            LET m == obs[t].msg
                F == FailedRules(m, community) IN
            /\ m.vtag \notin {0, 1} =>
                  /\ obs[t].outcome = "UnsupportedVersion"
                  /\ obs[t].rule = 1
                  /\ obs[t].incs["unsupported-notification"] = 1
                  /\ StoppedInValidator(t)
            /\ (m.wire = "ok" /\ F # {}) =>
                  /\ obs[t].rule = First(F)
                  /\ obs[t].outcome = RuleOutcome(First(F))
                  /\ StoppedInValidator(t)
            /\ (m.wire = "ok" /\ F = {}) =>
                  /\ obs[t].rule = 0
                  /\ obs[t].outcome \in {"Accepted", "Blackholed", "Fault"}
                  /\ trap[t] # NoTrap

\* C8 witness: a message failing rules 1, 2 and 3 at once was rejected by
\* rule 1.
C8_Witness ==
    \E t \in Threads :
        /\ pc[t] = "done"
        /\ obs[t].msg.raw = "snmp"
        /\ {1, 2, 3} \subseteq FailedRules(obs[t].msg, community)
        /\ obs[t].outcome = "UnsupportedVersion"

\* What C9 says of a message rejected for its community.
Unauthenticated(t) ==
    /\ obs[t].outcome = "CommunityMismatch"
    /\ obs[t].incs = Bump(Zero, <<"unauthenticated-notification">>)
    /\ obs[t].escaped = "none"
    /\ StoppedInValidator(t)

\* C9 as stated: with a non-empty secret every message whose community
\* differs ends as CommunityMismatch, whatever its PDU; with an empty secret
\* none does.
C9_EveryMismatchRejected ==
    \A t \in Threads :
        (pc[t] # "idle" /\ obs[t].msg.raw = "snmp") =>
            /\ (community # "" /\ obs[t].msg.community # community) => Unauthenticated(t)
            /\ community = "" => obs[t].outcome # "CommunityMismatch"

\* C9 amended: with a non-empty secret every message that has a recognized
\* version tag, is accepted by the wire decoder and whose community differs
\* ends as CommunityMismatch, whatever its PDU; with an empty secret none
\* does.
C9_CommunityCheck ==
    \A t \in Threads :
        (pc[t] # "idle" /\ obs[t].msg.raw = "snmp") =>
            /\ (/\ community # ""
                /\ obs[t].msg.community # community
                /\ obs[t].msg.vtag \in {0, 1}
                /\ obs[t].msg.wire = "ok") => Unauthenticated(t)
            /\ community = "" =>
                  /\ obs[t].outcome # "CommunityMismatch"
                  /\ obs[t].incs["unauthenticated-notification"] = 0

\* C9 witness: a message differing from the secret only in the case of its
\* community, and carrying a PDU that is no trap, was rejected for its
\* community.
C9_Witness ==
    \E t \in Threads :
        /\ pc[t] = "done"
        /\ community = "public"
        /\ obs[t].msg.community = "Public"
        /\ obs[t].msg.pdu.cls = "get"
        /\ obs[t].outcome = "CommunityMismatch"

\* C10: when the plug-in raises for a valid trap, nothing reaches the
\* boundary, the policy looked up for the OID is applied unmodified and the
\* trap goes on as with the no-op plug-in: blackholed, or stored and fanned
\* out.
C10_HookFailureFallback ==
    \A t \in Threads :
        (pc[t] = "done" /\ obs[t].hook = "raise") =>
            /\ obs[t].caught = "none"
            /\ handler[t] = obs[t].policy
            /\ trap[t].severity = obs[t].policy.severity
            /\ trap[t].manager = ThisHost
            /\ obs[t].incs["traps_received"] = 1
            /\ obs[t].policy.blackhole => obs[t].outcome = "Blackholed"
            /\ ~obs[t].policy.blackhole =>
                  /\ obs[t].write # "none"
                  /\ obs[t].mail # "none"
                  /\ obs[t].index # "none"

\* The expires attribute the pipeline must have given a notification with
\* sent timestamp T under a policy with expiration D (0: none configured),
\* when from_pdu had built it with expires = before.
Expiry(T, D, before) == IF D # 0 THEN T + D ELSE before

\* The notification of thread t as from_pdu built it.
Converted(t) ==
    FromPdu(trap[t].host, [cls |-> "trap", conv |-> TRUE, oid |-> trap[t].oid,
                           sent |-> trap[t].sent])

\* C11: an accepted trap with sent timestamp T whose resolved policy has the
\* expiration D is presented to the store, and stored, with expires = T + D;
\* with no expiration configured its expires is as from_pdu left it.
C11_ExpirationComputation ==
    /\ \A t \in Threads :
          (pc[t] \in {"add", "commit", "except", "mail", "index"}) =>
              trap[t].expires =
                  Expiry(trap[t].sent, handler[t].expiration, Converted(t).expires)
    /\ \A i \in 1..Len(store) :
          store[i].expires =
              Expiry(store[i].sent, config[store[i].oid].expiration, 0)

\* C11 witness: a trap sent at 1 under a policy with expiration 5 is stored
\* with expires 6, and one under a policy without expiration with expires
\* unset.
C11_Witness ==
    /\ \E i \in 1..Len(store) :
          /\ config[store[i].oid].expiration = 5
          /\ store[i].sent = 1
          /\ store[i].expires = 6
    /\ \E i \in 1..Len(store) :
          /\ config[store[i].oid].expiration = 0
          /\ store[i].expires = 0

\* The keys transform_varbind derives from the variable binding vb.
DerivedKeys(vb) == {vb.name, vb.oid, vb.name \o ":type"}

\* The base fields of a notification other than its identifier.
BaseKeys == DOMAIN ToDict(NoTrap) \ {"id"}

\* C12: the document handed to the index client is one flat mapping holding
\* the base fields of the notification without the key id, the value of id
\* under notification_id, mib_name for the trap OID and, for every variable
\* binding, name -> pretty value, oid -> raw value and "<name>:type" -> the
\* value-kind tag.
C12_DocumentFlattening ==
    \A t \in Threads :
        obs[t].index # "none" =>
            LET d == obs[t].doc
                tr == trap[t] IN
            /\ DOMAIN d = BaseKeys \cup {"notification_id", "mib_name"} \cup
                          UNION {DerivedKeys(tr.vbs[i]) : i \in 1..Len(tr.vbs)}
            /\ \A k \in BaseKeys : d[k] = ToDict(tr)[k]
            /\ d["notification_id"] = tr.id
            /\ d["mib_name"] = MibName(tr.oid)
            /\ \A i \in 1..Len(tr.vbs) :
                  LET vb == tr.vbs[i] IN
                  /\ d[vb.name] = vb.pretty_value
                  /\ d[vb.oid] = vb.value
                  /\ d[vb.name \o ":type"] = vb.value_type

\* C12 witness: a stored notification with two variable bindings has been
\* indexed; its document holds the three keys of sysLocation.0 and those of
\* sysUpTime.0, whose pretty value differs from its raw value.
C12_Witness ==
    \E t \in Threads :
        /\ obs[t].index = "indexed"
        /\ Len(trap[t].vbs) = 2
        /\ obs[t].doc["sysLocation.0"] = "Lab-1"
        /\ obs[t].doc["1.3.6.1.2.1.1.6.0"] = "Lab-1"
        /\ obs[t].doc["sysLocation.0:type"] = "octet"
        /\ obs[t].doc["sysUpTime.0"] = "47.11s"
        /\ obs[t].doc["1.3.6.1.2.1.1.3.0"] = "4711"
        /\ obs[t].doc["notification_id"] = 1

\* C13: a failure of the index client dispatch is handled by the indexing
\* action: for a trap whose only fault was an index transport failure,
\* nothing reaches the top-level boundary and callback-failure is not
\* incremented.
C13_IndexFailureContained ==
    \A t \in Threads :
        (pc[t] = "done" /\ obs[t].index = "failed" /\ obs[t].raised = {"ConnectionError"}) =>
            /\ obs[t].caught = "none"
            /\ obs[t].incs["callback-failure"] = 0

\* C14: invocations of one callback interleaved on a multi-threaded
\* transport, the store healthy: a trap presented by one invocation only has
\* the write outcome it would have had alone. It is reported as a success,
\* its record is stored with its identifier, and no commit or rollback of
\* another invocation has discarded or misreported it.
C14_Reentrancy ==
    \A t \in Threads :
        (Wrote(t) /\ writes[Key(trap[t])].presented = 1) =>
            /\ obs[t].write = "success"
            /\ obs[t].incs["db_write_successful"] = 1
            /\ Rows(Key(trap[t])) = 1
            /\ trap[t].id # 0

\* C15: after an invocation that ended in any error, a later invocation of
\* the same callback carrying a distinct valid trap, the store being healthy
\* during it, is processed normally: its write is a success and its record
\* is stored.
C15_NoErrorBlocksNext ==
    \A t \in Threads :
        (/\ calls[t] >= 1
         /\ Wrote(t)
         /\ writes[Key(trap[t])].presented = 1
         /\ obs[t].raised \cap StoreFaults = {}) =>
            /\ obs[t].write = "success"
            /\ Rows(Key(trap[t])) = 1

\* _send_mail of thread t went as far as calling send_trap_email (line 67).
SendCalled(t) == Dispatched(t) /\ "KeyError" \notin obs[t].raised

\* C16: whenever the mail dispatch is attempted, mail_sent_attempted is
\* incremented and then exactly one of mail_sent_successful and
\* mail_sent_failed; a transport failure of the send is caught in _send_mail,
\* counted as mail_sent_failed, not propagated, and the invocation goes on
\* to the indexing step.
C16_MailAttemptAccounting ==
    \A t \in Threads :
        (pc[t] \in {"index", "return", "done"} /\ SendCalled(t)) =>
            /\ obs[t].incs["mail_sent_attempted"] = 1
            /\ obs[t].incs["mail_sent_successful"] + obs[t].incs["mail_sent_failed"] = 1
            /\ "socket.error" \in obs[t].raised =>
                  /\ obs[t].mail = "failed"
                  /\ obs[t].incs["mail_sent_failed"] = 1
                  /\ obs[t].caught # "socket.error"
                  /\ pc[t] = "done" => obs[t].index # "none"

\* C17: after a write that ended as a duplicate or as a transient failure the
\* session has been rolled back before the fan-out runs and holds no pending
\* write for the rest of the invocation; the notification is not committed by
\* a later commit (every stored row of a key comes from a successful write of
\* that key); a duplicate increments db_write_duplicate and not
\* db_write_failed, a transient failure db_write_failed only.
C17_RollbackOnNonSuccess ==
    /\ \A t \in Threads :
          (Wrote(t) /\ obs[t].write \in {"duplicate", "failed"}) =>
              /\ RolledBack(t)
              /\ trap[t].id = 0
              /\ obs[t].incs["db_write_successful"] = 0
              /\ obs[t].incs["db_write_duplicate"] =
                    (IF obs[t].write = "duplicate" THEN 1 ELSE 0)
              /\ obs[t].incs["db_write_failed"] =
                    (IF obs[t].write = "failed" THEN 1 ELSE 0)
    /\ \A k \in Keys : Rows(k) = writes[k].success

\* C17 witness: the first trap met an unreachable store and was rolled back;
\* the next invocation committed a distinct trap, and the first trap has no
\* row.
C17_Witness ==
    \E t \in Threads :
        /\ pc[t] = "done"
        /\ calls[t] = 2
        /\ obs[t].write = "success"
        /\ Len(store) = 1
        /\ \E k \in Keys : writes[k].failed = 1 /\ Rows(k) = 0

\* The counters the invocation of thread t has incremented.
Counted(t) == {c \in Counters : obs[t].incs[c] # 0}

\* C18: an invocation that ended in the validator has incremented exactly
\* one named counter, once, and has returned without raising to the
\* top-level boundary; and no invocation ends without any counter
\* incremented.
C18_ValidatorOutcomesCounted ==
    \A t \in Threads :
        obs[t].returned =>
            /\ Counted(t) # {}
            /\ trap[t] = NoTrap =>
                  /\ Cardinality(Counted(t)) = 1
                  /\ \A c \in Counted(t) : obs[t].incs[c] = 1
                  /\ obs[t].caught = "none"
                  /\ obs[t].incs["callback-failure"] = 0

\* No invocation is in progress.
Quiescent == \A t \in Threads : pc[t] \in {"idle", "done"}

\* C19: once the invocations made so far have all completed and none has
\* reached the top-level fault boundary, the counters of the ingester satisfy
\* traps_received = traps_accepted + traps_blackholed, traps_accepted =
\* db_write_attempted, db_write_attempted = db_write_successful +
\* db_write_failed + db_write_duplicate, and db_write_successful is the
\* number of records the ingester has stored.
C19_CounterConservation ==
    \A c \in Callbacks :
        (Quiescent /\ stats[c]["callback-failure"] = 0) =>
            /\ stats[c]["traps_received"] =
                  stats[c]["traps_accepted"] + stats[c]["traps_blackholed"]
            /\ stats[c]["traps_accepted"] = stats[c]["db_write_attempted"]
            /\ stats[c]["db_write_attempted"] =
                  stats[c]["db_write_successful"] + stats[c]["db_write_failed"]
                  + stats[c]["db_write_duplicate"]
            /\ stats[c]["db_write_successful"] = Len(store)

\* C19 witness: two invocations have completed without a fault at the
\* boundary, one blackholed and one whose write failed, or one stored and
\* one a duplicate.
C19_Witness ==
    \E c \in Callbacks :
        /\ Quiescent
        /\ stats[c]["callback-failure"] = 0
        /\ stats[c]["traps_received"] = 2
        /\ \/ stats[c]["traps_blackholed"] = 1 /\ stats[c]["db_write_failed"] = 1
           \/ stats[c]["db_write_successful"] = 1 /\ stats[c]["db_write_duplicate"] = 1

\* C20: the notification_id of a dispatched index document is the identifier
\* the store assigned to the record exactly when the invocation's own commit
\* succeeded; after a duplicate or a failed write, which were rolled back,
\* it is unset (0), and in particular is not the identifier of the record
\* already stored for that logical trap.
C20_DocumentIdentifier ==
    \A t \in Threads :
        obs[t].index # "none" =>
            LET id == obs[t].doc["notification_id"] IN
            /\ obs[t].write = "success" <=> id # 0
            /\ obs[t].write = "success" =>
                  /\ id \in 1..Len(store)
                  /\ store[id].id = id
                  /\ Key(store[id]) = Key(trap[t])
            /\ obs[t].write \in {"duplicate", "failed"} =>
                  /\ id = 0
                  /\ \A i \in 1..Len(store) : Key(store[i]) = Key(trap[t]) => store[i].id # id

\* C20 witness: the second presentation of a stored trap was indexed with an
\* unset notification_id while the stored record has identifier 1.
C20_Witness ==
    \E t \in Threads :
        /\ obs[t].index = "indexed"
        /\ obs[t].write = "duplicate"
        /\ obs[t].doc["notification_id"] = 0
        /\ \E i \in 1..Len(store) : Key(store[i]) = Key(trap[t]) /\ store[i].id = 1

====
